---- MODULE Spec2Model ----
(***************************************************************************)
(* Memory allocation tracker: the paging / segmentation simulation engine  *)
(* (allocateMemory, deallocateMemory) and the statistics refresh           *)
(* (updateStats) of the tview variant, src/index.go.  The bubbletea        *)
(* variant, src/unnamed/part_000, has the same engine code.                *)
(***************************************************************************)
EXTENDS Integers, Sequences, FiniteSets, TLC

(* ---- bounds of the model ---------------------------------------------- *)
\* pageCount of initialModel (64, resp. 32 in the source), scaled down
PageCount == 4
\* number of distinct process numbers rand.Intn(100) may draw, scaled down
NumPids == 2
\* cap on stats.totalAllocations, so that the counters stay finite
MaxAllocs == 3
\* longest segment list the fragmentation rate is recomputed on by itself
MaxSegLen == 4
\* cap on stats.totalAllocations while the update goroutine runs beside the
\* key handler
MaxRaceAllocs == 2

(* ---- program constants ------------------------------------------------ *)
\* m.stats.pageSize = 4
PageSizeKB == 4
\* rand.Intn(3) + 1
MaxRun == 3

VARIABLES
    pages,               \* m.pages: 0..PageCount-1 -> page
    segments,            \* m.segments: sequence of segment (index i of the code is i+1 here)
    totalAllocations,    \* m.stats.totalAllocations
    totalDeallocations,  \* m.stats.totalDeallocations
    fragmentationRate,   \* m.stats.fragmentationRate
    peakMemoryUsage,     \* m.stats.peakMemoryUsage
    hostSample,          \* m.stats.memoryUsage, totalMemory, usedMemory, freeMemory
    tickPc,              \* where the update goroutine stands in its loop
    tickLocals,          \* the locals of updateStats: usedPages, i, gaps, prev
    searchResult,        \* the locals of a stand-alone run of the search of allocateMemory
    view,                \* what View of the bubbletea variant last rendered in its metrics panel
    teaModel,            \* the model value the bubbletea program holds, when both variants are run side by side
    drain,               \* history: whether a drain has begun, the segments it began with, the deallocates since
    teaTick,             \* history: the last tickMsg of the bubbletea variant, its reading and the sample before it
    last                 \* history: the last command, its random draws and the state it started from

engine == <<pages, segments, totalAllocations, totalDeallocations>>
tickStats == <<fragmentationRate, peakMemoryUsage, hostSample>>
tick == <<fragmentationRate, peakMemoryUsage, hostSample, tickPc, tickLocals>>
vars == <<pages, segments, totalAllocations, totalDeallocations,
          fragmentationRate, peakMemoryUsage, hostSample, tickPc, tickLocals,
          searchResult, view, teaTick, teaModel, drain, last>>

\* what only the side-by-side run and the drain write
aux == <<teaModel, drain>>

(* ---- data structures -------------------------------------------------- *)
PageIdx == 0 .. (PageCount - 1)

\* page{used, processID}
page(u, p) == [used |-> u, processID |-> p]

\* the zero value of page, as make([]page, n) fills the slice
zeroPage == page(FALSE, "")

\* segment{size, processID}
segment(s, p) == [size |-> s, processID |-> p]

\* fmt.Sprintf("P%d", n)
Pid(n) == "P" \o ToString(n)

\* the values rand.Intn(100) draws
PidNumbers == 0 .. (NumPids - 1)

\* the values rand.Intn(3) + 1 draws
RunLengths == 1 .. MaxRun

(* ---- allocateMemory: the contiguous search ---------------------------- *)
\* The for loop over m.pages; the result is the pair of locals
\* (startIdx, contiguousCount) when the loop ends or breaks.
\* the search with the reset of the run at a used page left out
RECURSIVE ScanPagesNoReset(_, _, _, _, _)
ScanPagesNoReset(pgs, requiredPages, i, startIdx, contiguousCount) ==
    IF i >= PageCount
    THEN [startIdx |-> startIdx, contiguousCount |-> contiguousCount]
    ELSE IF ~pgs[i].used
         THEN LET s == IF startIdx = -1 THEN i ELSE startIdx
                  c == contiguousCount + 1
              IN  IF c >= requiredPages
                  THEN [startIdx |-> s, contiguousCount |-> c]
                  ELSE ScanPagesNoReset(pgs, requiredPages, i + 1, s, c)
         ELSE ScanPagesNoReset(pgs, requiredPages, i + 1, startIdx, contiguousCount)

RECURSIVE ScanPages(_, _, _, _, _)
ScanPages(pgs, requiredPages, i, startIdx, contiguousCount) ==
    IF i >= PageCount
    THEN [startIdx |-> startIdx, contiguousCount |-> contiguousCount]
    ELSE IF ~pgs[i].used
         THEN LET s == IF startIdx = -1 THEN i ELSE startIdx
                  c == contiguousCount + 1
              IN  IF c >= requiredPages
                  THEN [startIdx |-> s, contiguousCount |-> c]
                  ELSE ScanPages(pgs, requiredPages, i + 1, s, c)
         ELSE ScanPages(pgs, requiredPages, i + 1, -1, 0)

FindContiguous(pgs, requiredPages) == ScanPages(pgs, requiredPages, 0, -1, 0)

\* the test with the comparison of the run length left out
FoundIgnoresCount(res, requiredPages) == res.startIdx # -1

\* if startIdx != -1 && contiguousCount >= requiredPages
Found(res, requiredPages) ==
    res.startIdx # -1 /\ res.contiguousCount >= requiredPages

\* the marking loop with i <= startIdx+requiredPages as its condition
MarkUsedOffByOne(pgs, startIdx, requiredPages, pid) ==
    [i \in PageIdx \cup (startIdx .. (startIdx + requiredPages)) |->
        IF i >= startIdx /\ i <= startIdx + requiredPages
        THEN page(TRUE, pid)
        ELSE pgs[i]]

\* the marking loop always marking three pages: i < startIdx+3
MarkUsedFixedRun(pgs, startIdx, requiredPages, pid) ==
    [i \in PageIdx \cup (startIdx .. (startIdx + MaxRun - 1)) |->
        IF i >= startIdx /\ i < startIdx + MaxRun
        THEN page(TRUE, pid)
        ELSE pgs[i]]

\* the marking loop starting one slot early: for i := startIdx-1; i < startIdx+requiredPages-1
MarkUsedOneEarly(pgs, startIdx, requiredPages, pid) ==
    [i \in PageIdx \cup ((startIdx - 1) .. (startIdx + requiredPages - 2)) |->
        IF i >= startIdx - 1 /\ i < startIdx + requiredPages - 1
        THEN page(TRUE, pid)
        ELSE pgs[i]]

\* for i := startIdx; i < startIdx+requiredPages; i++ { m.pages[i] = page{true, pid} }
\* An index the loop writes outside 0..PageCount-1 (where Go panics) stays
\* visible as an index of the result.
MarkUsed(pgs, startIdx, requiredPages, pid) ==
    [i \in PageIdx \cup (startIdx .. (startIdx + requiredPages - 1)) |->
        IF i >= startIdx /\ i < startIdx + requiredPages
        THEN page(TRUE, pid)
        ELSE pgs[i]]

\* the append storing the run length itself: segment{requiredPages, pid}
AppendSegmentInPages(segs, requiredPages, pid) ==
    Append(segs, segment(requiredPages, pid))

\* append(m.segments, segment{requiredPages * int(m.stats.pageSize), pid})
AppendSegment(segs, requiredPages, pid) ==
    Append(segs, segment(requiredPages * PageSizeKB, pid))

(* ---- deallocateMemory ------------------------------------------------- *)
\* the owner taken from the first segment instead of the last
LastPIDFirst(segs) == segs[1].processID

\* m.segments[len(m.segments)-1].processID
LastPID(segs) == segs[Len(segs)].processID

\* the removal cutting two segments: m.segments[:len(m.segments)-2]
PopSegmentTwo(segs) == SubSeq(segs, 1, Len(segs) - 2)

\* the removal taking the oldest segment: m.segments[1:]
PopSegmentHead(segs) == Tail(segs)

\* m.segments[:len(m.segments)-1]
PopSegment(segs) == SubSeq(segs, 1, Len(segs) - 1)

\* the freeing loop with a break after the first matching page
FreeByOwnerFirstOnly(pgs, lastPID) ==
    [i \in PageIdx |->
        IF /\ pgs[i].processID = lastPID
           /\ \A j \in PageIdx : j < i => pgs[j].processID # lastPID
        THEN page(FALSE, "")
        ELSE pgs[i]]

\* the freeing loop starting at the second page: for i := 1; i < len(m.pages)
FreeByOwnerFromOne(pgs, lastPID) ==
    [i \in PageIdx |->
        IF i >= 1 /\ pgs[i].processID = lastPID THEN page(FALSE, "") ELSE pgs[i]]

\* the freeing loop clearing only the used flag: m.pages[i].used = false
FreeByOwnerKeepsTag(pgs, lastPID) ==
    [i \in PageIdx |->
        IF pgs[i].processID = lastPID THEN page(FALSE, pgs[i].processID) ELSE pgs[i]]

\* for i := range m.pages { if m.pages[i].processID == lastPID { m.pages[i] = page{false, ""} } }
FreeByOwner(pgs, lastPID) ==
    [i \in PageIdx |->
        IF pgs[i].processID = lastPID THEN page(FALSE, "") ELSE pgs[i]]

(* ---- float64 values of the statistics ---------------------------------- *)
RECURSIVE GCD(_, _)
GCD(a, b) == IF b = 0 THEN a ELSE GCD(b, a % b)

\* float64(a) / float64(b) * 100, kept as a reduced fraction; a zero divisor
\* gives NaN (0/0, here num 0 den 0) or +Inf (here num 1 den 0) and no panic
Percent(a, b) ==
    IF b = 0
    THEN [num |-> IF a = 0 THEN 0 ELSE 1, den |-> 0]
    ELSE LET g == GCD(a * 100, b)
         IN  [num |-> (a * 100) \div g, den |-> b \div g]

\* the zero value 0.0
F64Zero == [num |-> 0, den |-> 1]

\* x > y on float64: false when either side is NaN
F64Gt(x, y) ==
    LET nan(z) == z.den = 0 /\ z.num = 0
        inf(z) == z.den = 0 /\ z.num # 0
    IN  /\ ~nan(x)
        /\ ~nan(y)
        /\ IF inf(x) THEN ~inf(y)
           ELSE IF inf(y) THEN FALSE
           ELSE x.num * y.den > y.num * x.den

(* ---- the host memory sample ------------------------------------------- *)
\* 1024 * 1024
MiB == 1048576

\* what mem.VirtualMemory() may return: an error, or a reading in bytes
HostReadings ==
    { [err |-> TRUE,  Total |-> 0, Used |-> 0, Free |-> 0, UsedPercent |-> 0],
      [err |-> FALSE, Total |-> 8 * MiB + 100, Used |-> 7 * MiB, Free |-> MiB + 100, UsedPercent |-> 87] }

\* the four host fields of m.stats before the first sample
noSample == [memoryUsage |-> 0, totalMemory |-> 0, usedMemory |-> 0, freeMemory |-> 0]

\* the merge clearing the fields when the call fails
MergeSampleClearsOnError(old, v) ==
    IF ~v.err
    THEN [memoryUsage |-> v.UsedPercent,
          totalMemory |-> (v.Total \div 1024) \div 1024,
          usedMemory  |-> (v.Used \div 1024) \div 1024,
          freeMemory  |-> (v.Free \div 1024) \div 1024]
    ELSE [memoryUsage |-> 0, totalMemory |-> 0, usedMemory |-> 0, freeMemory |-> 0]

\* if v, err := mem.VirtualMemory(); err == nil { ... }
MergeSample(old, v) ==
    IF ~v.err
    THEN [memoryUsage |-> v.UsedPercent,
          totalMemory |-> (v.Total \div 1024) \div 1024,
          usedMemory  |-> (v.Used \div 1024) \div 1024,
          freeMemory  |-> (v.Free \div 1024) \div 1024]
    ELSE old

(* ---- updateStats ------------------------------------------------------ *)
\* the locals of updateStats while none of them is live
noLocals == [usedPages |-> 0, idx |-> 0, i |-> 0, gaps |-> 0, prev |-> ""]

\* the peak assigned without the comparison: m.stats.peakMemoryUsage = memoryUsage
UpdatePeakOverwrite(peak, memoryUsage) == memoryUsage

\* if memoryUsage > m.stats.peakMemoryUsage { m.stats.peakMemoryUsage = memoryUsage }
UpdatePeak(peak, memoryUsage) ==
    IF F64Gt(memoryUsage, peak) THEN memoryUsage ELSE peak

(* ---- the recomputation of View / updateStats, run without interruption -- *)
\* for _, p := range m.pages { if p.used { usedPages++ } }
RECURSIVE CountUsed(_, _, _)
CountUsed(pgs, idx, usedPages) ==
    IF idx >= PageCount
    THEN usedPages
    ELSE CountUsed(pgs, idx + 1, IF pgs[idx].used THEN usedPages + 1 ELSE usedPages)

\* for i := 1; i < len(m.segments); i++ { if m.segments[i-1].processID != m.segments[i].processID { gaps++ } }
RECURSIVE CountGaps(_, _, _)
CountGaps(segs, i, gaps) ==
    IF i < Len(segs)
    THEN CountGaps(segs, i + 1,
                   IF segs[i].processID # segs[i + 1].processID THEN gaps + 1 ELSE gaps)
    ELSE gaps

\* the rate with the number of adjacent pairs as the divisor
FragmentationPerPair(segs) ==
    IF Len(segs) > 0
    THEN Percent(CountGaps(segs, 1, 0), Len(segs) - 1)
    ELSE F64Zero

\* fragmentation := 0.0; if len(m.segments) > 0 { ...; fragmentation = float64(gaps) / float64(len(m.segments)) * 100 }
Fragmentation(segs) ==
    IF Len(segs) > 0
    THEN Percent(CountGaps(segs, 1, 0), Len(segs))
    ELSE F64Zero

\* nothing rendered yet
noView == [shown |-> FALSE, fragmentation |-> F64Zero, peakUsage |-> F64Zero,
           availablePages |-> 0, memoryBar |-> F64Zero]

\* no tickMsg handled yet
noTick == [taken |-> FALSE, v |-> [err |-> TRUE, Total |-> 0, Used |-> 0, Free |-> 0, UsedPercent |-> 0],
           before |-> noSample]

(* ---- the engine of the bubbletea variant, on a value receiver ----------- *)
\* initialModel of part_000, at the capacity of the model
teaInitialModel ==
    [pages |-> [i \in PageIdx |-> zeroPage], segments |-> << >>,
     totalAllocations |-> 0, totalDeallocations |-> 0]

\* the call with its result dropped: the marks reach the page array the
\* copy shares, the copy's segment list and counter are lost
TeaAllocateMemoryDropped(m, n, r) ==
    LET pid == Pid(n)
        requiredPages == r
        res == FindContiguous(m.pages, requiredPages)
    IN  IF Found(res, requiredPages)
        THEN [m EXCEPT !.pages = MarkUsed(m.pages, res.startIdx, requiredPages, pid)]
        ELSE m

\* func (m model) allocateMemory() model: m is a copy of the receiver whose
\* m.pages shares the page array; the copy is returned and Update hands it
\* back to the program
TeaAllocateMemory(m, n, r) ==
    LET pid == Pid(n)
        requiredPages == r
        res == FindContiguous(m.pages, requiredPages)
    IN  IF Found(res, requiredPages)
        THEN [pages |-> MarkUsed(m.pages, res.startIdx, requiredPages, pid),
              segments |-> AppendSegment(m.segments, requiredPages, pid),
              totalAllocations |-> m.totalAllocations + 1,
              totalDeallocations |-> m.totalDeallocations]
        ELSE m

\* func (m model) deallocateMemory() model
TeaDeallocateMemory(m) ==
    IF Len(m.segments) > 0
    THEN LET lastPID == LastPID(m.segments)
         IN  [pages |-> FreeByOwner(m.pages, lastPID),
              segments |-> PopSegment(m.segments),
              totalAllocations |-> m.totalAllocations,
              totalDeallocations |-> m.totalDeallocations + 1]
    ELSE m

\* no drain has begun
noDrain == [on |-> FALSE, segs |-> 0, count |-> 0]

(* ---- history ---------------------------------------------------------- *)
\* no command yet
noCommand == [op |-> "none", k |-> 0, pid |-> "", pages |-> << >>]

\* what a command remembers: its name, its draws, the engine state before it,
\* and (prior) the command that came right before it
Remember(op, k, pid, prior) ==
    [op |-> op, k |-> k, pid |-> pid,
     pages |-> pages, segments |-> segments,
     totalAllocations |-> totalAllocations,
     totalDeallocations |-> totalDeallocations,
     prior |-> prior]

\* the last command as the next one remembers it
Prior == [op |-> last.op, k |-> last.k, pid |-> last.pid, pages |-> last.pages]

\* no stand-alone search has run
noSearch == [k |-> 0, startIdx |-> -1, contiguousCount |-> 0]

(* ---- initial state ---------------------------------------------------- *)
Init ==
    /\ pages = [i \in PageIdx |-> zeroPage]
    /\ segments = << >>
    /\ totalAllocations = 0
    /\ totalDeallocations = 0
    /\ fragmentationRate = F64Zero
    /\ peakMemoryUsage = F64Zero
    /\ hostSample = noSample
    /\ tickPc = "sleep"
    /\ tickLocals = noLocals
    /\ searchResult = noSearch
    /\ view = noView
    /\ teaTick = noTick
    /\ teaModel = teaInitialModel
    /\ drain = noDrain
    /\ last = [op |-> "none", k |-> 0, pid |-> "",
               pages |-> [i \in PageIdx |-> zeroPage], segments |-> << >>,
               totalAllocations |-> 0, totalDeallocations |-> 0,
               prior |-> noCommand]

(* ---- commands --------------------------------------------------------- *)
\* allocateMemory with the counter incremented outside the if
AllocateCountsFailure(n, r) ==
    /\ tickPc # "panicked"
    /\ totalAllocations < MaxAllocs
    /\ UNCHANGED <<tick, searchResult, view, teaTick>>
    /\ LET pid == Pid(n)
           requiredPages == r
           res == FindContiguous(pages, requiredPages)
       IN  IF Found(res, requiredPages)
           THEN /\ pages' = MarkUsed(pages, res.startIdx, requiredPages, pid)
                /\ segments' = AppendSegment(segments, requiredPages, pid)
           ELSE UNCHANGED <<pages, segments>>
    /\ totalAllocations' = totalAllocations + 1
    /\ UNCHANGED totalDeallocations
    /\ last' = Remember("allocate", r, Pid(n), noCommand)

\* key 'a': m.allocateMemory(), with the draws n = rand.Intn(100), r = rand.Intn(3)+1
Allocate(n, r) ==
    /\ tickPc # "panicked"
    /\ totalAllocations < MaxAllocs
    /\ UNCHANGED <<tick, searchResult, view, teaTick>>
    /\ LET pid == Pid(n)
           requiredPages == r
           res == FindContiguous(pages, requiredPages)
       IN  IF Found(res, requiredPages)
           THEN /\ pages' = MarkUsed(pages, res.startIdx, requiredPages, pid)
                /\ segments' = AppendSegment(segments, requiredPages, pid)
                /\ totalAllocations' = totalAllocations + 1
                /\ UNCHANGED totalDeallocations
           ELSE UNCHANGED engine
    /\ last' = Remember("allocate", r, Pid(n), noCommand)

\* deallocateMemory with the counter incremented outside the if
DeallocateCountsEmpty ==
    /\ tickPc # "panicked"
    /\ UNCHANGED <<tick, searchResult, view, teaTick>>
    /\ IF Len(segments) > 0
       THEN LET lastPID == segments[Len(segments)].processID
            IN  /\ segments' = SubSeq(segments, 1, Len(segments) - 1)
                /\ pages' = [i \in PageIdx |->
                                IF pages[i].processID = lastPID THEN page(FALSE, "") ELSE pages[i]]
       ELSE UNCHANGED <<pages, segments>>
    /\ totalDeallocations' = totalDeallocations + 1
    /\ UNCHANGED totalAllocations
    /\ last' = Remember("deallocate", 0, "", Prior)

\* key 'd': m.deallocateMemory()
Deallocate ==
    /\ tickPc # "panicked"
    /\ UNCHANGED <<tick, searchResult, view, teaTick>>
    /\ IF Len(segments) > 0
       THEN LET lastPID == LastPID(segments)
            IN  /\ segments' = PopSegment(segments)
                /\ pages' = FreeByOwner(pages, lastPID)
                /\ totalDeallocations' = totalDeallocations + 1
                /\ UNCHANGED totalAllocations
       ELSE UNCHANGED engine
    /\ last' = Remember("deallocate", 0, "", Prior)

(* ---- the update goroutine: for { m.updateStats(); ...; time.Sleep } ---- *)
\* It runs beside the input handler with no lock, so each read of m.pages
\* or m.segments is a step of its own; a slice header is read as a whole.

\* updateStats starts: usedPages := 0, and the range over m.pages begins
TickBegin ==
    /\ tickPc = "sleep"
    /\ tickPc' = "scanPages"
    /\ tickLocals' = noLocals
    /\ UNCHANGED <<engine, tickStats, searchResult, view, teaTick, aux, last>>

\* one iteration of: for _, p := range m.pages { if p.used { usedPages++ } }
TickScanPage ==
    /\ tickPc = "scanPages"
    /\ LET p == pages[tickLocals.idx]
           n == IF p.used THEN tickLocals.usedPages + 1 ELSE tickLocals.usedPages
       IN  IF tickLocals.idx + 1 < PageCount
           THEN /\ tickLocals' = [tickLocals EXCEPT !.usedPages = n, !.idx = @ + 1]
                /\ UNCHANGED tickPc
           ELSE /\ tickLocals' = [tickLocals EXCEPT !.usedPages = n, !.idx = 0]
                /\ tickPc' = "checkLen"
    /\ UNCHANGED <<engine, tickStats, searchResult, view, teaTick, aux, last>>

\* the end of updateStats with the allocation counter cleared by mistake
TickFinishResetsCounter(fragmentation, v) ==
    /\ fragmentationRate' = fragmentation
    /\ peakMemoryUsage' = UpdatePeak(peakMemoryUsage, Percent(tickLocals.usedPages, PageCount))
    /\ hostSample' = MergeSample(hostSample, v)
    /\ tickPc' = "sleep"
    /\ tickLocals' = noLocals
    /\ totalAllocations' = 0
    /\ UNCHANGED <<pages, segments, totalDeallocations, searchResult, view, teaTick, aux, last>>

\* the rest of updateStats once fragmentation is known: store it, update
\* the peak, merge the host sample v; then the goroutine renders and sleeps
TickFinish(fragmentation, v) ==
    /\ fragmentationRate' = fragmentation
    /\ peakMemoryUsage' = UpdatePeak(peakMemoryUsage, Percent(tickLocals.usedPages, PageCount))
    /\ hostSample' = MergeSample(hostSample, v)
    /\ tickPc' = "sleep"
    /\ tickLocals' = noLocals
    /\ UNCHANGED <<engine, searchResult, view, teaTick, aux, last>>

\* if len(m.segments) > 0 { gaps := 0; for i := 1; ... } else fragmentation stays 0.0
TickCheckLen ==
    /\ tickPc = "checkLen"
    /\ IF Len(segments) > 0
       THEN /\ tickPc' = "loopCond"
            /\ tickLocals' = [tickLocals EXCEPT !.gaps = 0, !.i = 1]
            /\ UNCHANGED <<engine, tickStats, searchResult, view, teaTick, aux, last>>
       ELSE \E v \in HostReadings : TickFinish(F64Zero, v)

\* the loop condition: i < len(m.segments)
TickLoopCond ==
    /\ tickPc = "loopCond"
    /\ tickPc' = IF tickLocals.i < Len(segments) THEN "readPrev" ELSE "divide"
    /\ UNCHANGED <<engine, tickStats, tickLocals, searchResult, view, teaTick, aux, last>>

\* m.segments[i-1].processID, with its bounds check
TickReadPrev ==
    /\ tickPc = "readPrev"
    /\ IF tickLocals.i - 1 < Len(segments)
       THEN /\ tickLocals' = [tickLocals EXCEPT !.prev = segments[tickLocals.i].processID]
            /\ tickPc' = "readCur"
       ELSE /\ tickPc' = "panicked"
            /\ tickLocals' = noLocals
    /\ UNCHANGED <<engine, tickStats, searchResult, view, teaTick, aux, last>>

\* != m.segments[i].processID, with its bounds check; gaps++; i++
TickReadCur ==
    /\ tickPc = "readCur"
    /\ IF tickLocals.i < Len(segments)
       THEN /\ tickLocals' =
                 [tickLocals EXCEPT
                    !.gaps = IF tickLocals.prev # segments[tickLocals.i + 1].processID
                             THEN @ + 1 ELSE @,
                    !.i = @ + 1,
                    !.prev = ""]
            /\ tickPc' = "loopCond"
       ELSE /\ tickPc' = "panicked"
            /\ tickLocals' = noLocals
    /\ UNCHANGED <<engine, tickStats, searchResult, view, teaTick, aux, last>>

\* fragmentation = float64(gaps) / float64(len(m.segments)) * 100
TickDivide ==
    /\ tickPc = "divide"
    /\ \E v \in HostReadings :
          TickFinish(Percent(tickLocals.gaps, Len(segments)), v)

Next ==
    \/ /\ totalAllocations < MaxRaceAllocs
       /\ \E n \in PidNumbers, r \in RunLengths : Allocate(n, r)
       /\ UNCHANGED aux
    \/ Deallocate /\ UNCHANGED aux
    \/ TickBegin
    \/ TickScanPage
    \/ TickCheckLen
    \/ TickLoopCond
    \/ TickReadPrev
    \/ TickReadCur
    \/ TickDivide

Spec == Init /\ [][Next]_vars

(* ---- the bubbletea variant: src/unnamed/part_000 ----------------------- *)
\* Its allocateMemory and deallocateMemory have the code of the tview variant
\* on a value receiver: the slice m.pages is shared with the caller, and
\* Update hands the returned model back to the program, so Allocate and
\* Deallocate above are its 'a' and 'd' as well.  The program delivers one
\* message at a time to Update, and there is no update goroutine.

\* Update, case tickMsg: the host sample v is merged
TeaTick(v) ==
    /\ hostSample' = MergeSample(hostSample, v)
    /\ teaTick' = [taken |-> TRUE, v |-> v, before |-> hostSample]
    /\ UNCHANGED <<engine, fragmentationRate, peakMemoryUsage, tickPc, tickLocals,
                   searchResult, view, aux, last>>

\* View: it works on a copy of the model (value receiver), so what it stores
\* in m.stats.fragmentationRate and m.stats.peakMemoryUsage is lost when it
\* returns; only the rendered panel remains
TeaView ==
    /\ LET usedPages == CountUsed(pages, 0, 0)
           memoryUsage == Percent(usedPages, PageCount)
           fragmentation == Fragmentation(segments)
           peak == UpdatePeak(peakMemoryUsage, memoryUsage)
       IN  view' = [shown |-> TRUE,
                    fragmentation |-> fragmentation,
                    peakUsage |-> peak,
                    availablePages |-> PageCount - usedPages,
                    memoryBar |-> memoryUsage]
    /\ UNCHANGED <<engine, tick, searchResult, teaTick, aux, last>>

TeaNext ==
    \/ (\E n \in PidNumbers, r \in RunLengths : Allocate(n, r)) /\ UNCHANGED aux
    \/ Deallocate /\ UNCHANGED aux
    \/ \E v \in HostReadings : TeaTick(v)
    \/ TeaView

TeaSpec == Init /\ [][TeaNext]_vars

(* ---- the search of allocateMemory on its own --------------------------- *)
\* every page table whose pages are free with no owner or used with a tag
PageTables == [PageIdx -> {zeroPage} \cup {page(TRUE, Pid(n)) : n \in PidNumbers}]

SearchInit ==
    /\ pages \in PageTables
    /\ segments = << >>
    /\ totalAllocations = 0
    /\ totalDeallocations = 0
    /\ fragmentationRate = F64Zero
    /\ peakMemoryUsage = F64Zero
    /\ hostSample = noSample
    /\ tickPc = "sleep"
    /\ tickLocals = noLocals
    /\ searchResult = noSearch
    /\ view = noView
    /\ teaTick = noTick
    /\ teaModel = teaInitialModel
    /\ drain = noDrain
    /\ last = [op |-> "none", k |-> 0, pid |-> "",
               pages |-> pages, segments |-> << >>,
               totalAllocations |-> 0, totalDeallocations |-> 0,
               prior |-> noCommand]

\* lines 527-545 of allocateMemory run for requiredPages = r
Search(r) ==
    /\ LET res == FindContiguous(pages, r)
       IN  searchResult' = [k |-> r, startIdx |-> res.startIdx,
                            contiguousCount |-> res.contiguousCount]
    /\ UNCHANGED <<engine, tick, view, teaTick, aux, last>>

SearchNext == \E r \in RunLengths : Search(r)

SearchSpec == SearchInit /\ [][SearchNext]_vars
(* ---- the fragmentation rate on its own ---------------------------------- *)
\* the segments allocateMemory can append
SegmentValues ==
    {segment(k * PageSizeKB, Pid(n)) : k \in RunLengths, n \in PidNumbers}

\* every segment list of up to MaxSegLen such segments
SegmentLists == UNION {[1 .. n -> SegmentValues] : n \in 0 .. MaxSegLen}

FragInit ==
    /\ pages = [i \in PageIdx |-> zeroPage]
    /\ segments \in SegmentLists
    /\ totalAllocations = 0
    /\ totalDeallocations = 0
    /\ fragmentationRate = F64Zero
    /\ peakMemoryUsage = F64Zero
    /\ hostSample = noSample
    /\ tickPc = "sleep"
    /\ tickLocals = noLocals
    /\ searchResult = noSearch
    /\ view = noView
    /\ teaTick = noTick
    /\ teaModel = teaInitialModel
    /\ drain = noDrain
    /\ last = [op |-> "none", k |-> 0, pid |-> "",
               pages |-> pages, segments |-> << >>,
               totalAllocations |-> 0, totalDeallocations |-> 0,
               prior |-> noCommand]

\* the recomputation of View run on the list
FragNext == TeaView

FragSpec == FragInit /\ [][FragNext]_vars

(* ---- both variants on the same commands and draws ----------------------- *)
\* key 'a' with the draws n, r given to both variants
EquivAllocate(n, r) ==
    /\ Allocate(n, r)
    /\ teaModel' = TeaAllocateMemory(teaModel, n, r)
    /\ UNCHANGED drain

\* key 'd' given to both variants
EquivDeallocate ==
    /\ Deallocate
    /\ teaModel' = TeaDeallocateMemory(teaModel)
    /\ UNCHANGED drain

EquivNext ==
    \/ \E n \in PidNumbers, r \in RunLengths : EquivAllocate(n, r)
    \/ EquivDeallocate

EquivSpec == Init /\ [][EquivNext]_vars

(* ---- draining: deallocate commands only ---------------------------------- *)
\* from here on the user presses 'd' only
DrainBegin ==
    /\ ~drain.on
    /\ drain' = [on |-> TRUE, segs |-> Len(segments), count |-> 0]
    /\ UNCHANGED <<engine, tick, searchResult, view, teaTick, teaModel, last>>

\* key 'a', before the drain
DrainAllocate(n, r) ==
    /\ ~drain.on
    /\ Allocate(n, r)
    /\ UNCHANGED aux

\* key 'd'; the deallocates of a drain are counted up to one past its segments
DrainDeallocate ==
    /\ Deallocate
    /\ drain' = IF drain.on /\ drain.count <= drain.segs
                THEN [drain EXCEPT !.count = @ + 1]
                ELSE drain
    /\ UNCHANGED teaModel

DrainNext ==
    \/ \E n \in PidNumbers, r \in RunLengths : DrainAllocate(n, r)
    \/ DrainDeallocate
    \/ DrainBegin

\* during a drain the key 'd' keeps being pressed
DrainSpec == Init /\ [][DrainNext]_vars /\ WF_vars(drain.on /\ DrainDeallocate)

(* ======================================================================= *)
(* Properties                                                              *)
(* ======================================================================= *)
TypeOK ==
    /\ pages \in PageTables
    /\ totalAllocations \in 0 .. MaxAllocs
    /\ totalDeallocations \in 0 .. MaxAllocs
    /\ tickPc \in {"sleep", "scanPages", "checkLen", "loopCond", "readPrev",
                   "readCur", "divide", "panicked"}

\* slots i .. i+k-1 of pgs exist and are all free
FreeRunAt(pgs, i, k) ==
    /\ i + k - 1 <= PageCount - 1
    /\ \A j \in i .. (i + k - 1) : ~pgs[j].used

\* pgs has a run of k consecutive free slots
HasFreeRun(pgs, k) == \E i \in PageIdx : FreeRunAt(pgs, i, k)

\* the lowest start of such a run
LowestFreeRun(pgs, k) ==
    CHOOSE i \in PageIdx :
        FreeRunAt(pgs, i, k) /\ \A j \in PageIdx : j < i => ~FreeRunAt(pgs, j, k)

\* the number of used slots of pgs, and of slots owned by t
UsedCount(pgs) == Cardinality({i \in PageIdx : pgs[i].used})
OwnedCount(pgs, t) == Cardinality({i \in PageIdx : pgs[i].processID = t})

\* the last command was an allocate that found no run / found a run
AllocateFailed == last.op = "allocate" /\ ~HasFreeRun(last.pages, last.k)
AllocateSucceeded == last.op = "allocate" /\ HasFreeRun(last.pages, last.k)

\* the last command was a deallocate on a non-empty / an empty segment list
DeallocatePopped == last.op = "deallocate" /\ Len(last.segments) > 0
DeallocateOnEmpty == last.op = "deallocate" /\ Len(last.segments) = 0

\* C1: an allocate that finds no run of k consecutive free slots leaves the
\* page table, the segment list and both counters exactly as they were.
C1_AllocateFailureNoOp ==
    AllocateFailed =>
        /\ pages = last.pages
        /\ segments = last.segments
        /\ totalAllocations = last.totalAllocations
        /\ totalDeallocations = last.totalDeallocations

\* an allocate failed although free slots were left (a tail run too short)
C1_Witness ==
    /\ AllocateFailed
    /\ ~last.pages[PageCount - 1].used
    /\ Len(segments) > 0

\* C2: the search reports "found" exactly when some run of k free slots
\* exists, and then its start index is the lowest start of such a run.
C2_SearchFirstFit ==
    searchResult.k # 0 =>
        LET k == searchResult.k
        IN  /\ Found(searchResult, k) <=> HasFreeRun(pages, k)
            /\ Found(searchResult, k) => searchResult.startIdx = LowestFreeRun(pages, k)

\* a search that skipped a free run too short and restarted after a used slot
C2_Witness ==
    /\ searchResult.k = 2
    /\ Found(searchResult, 2)
    /\ searchResult.startIdx >= 2
    /\ ~pages[0].used

\* C3: a successful allocate marks exactly the k slots of the lowest free run
\* with its tag, appends one segment {k * pageSize, tag} at the tail, adds 1
\* to totalAllocations and changes nothing else.
C3_AllocateSuccessEffect ==
    AllocateSucceeded =>
        LET s == LowestFreeRun(last.pages, last.k)
        IN  /\ \A i \in PageIdx :
                  IF s <= i /\ i < s + last.k
                  THEN pages[i] = [used |-> TRUE, processID |-> last.pid]
                  ELSE pages[i] = last.pages[i]
            /\ Len(segments) = Len(last.segments) + 1
            /\ \A j \in 1 .. Len(last.segments) : segments[j] = last.segments[j]
            /\ segments[Len(segments)] = [size |-> last.k * PageSizeKB, processID |-> last.pid]
            /\ totalAllocations = last.totalAllocations + 1
            /\ totalDeallocations = last.totalDeallocations

\* an allocate succeeded behind used pages, with segments already in the list
C3_Witness ==
    /\ AllocateSucceeded
    /\ LowestFreeRun(last.pages, last.k) > 0
    /\ last.k >= 2
    /\ Len(last.segments) >= 1

\* C4: a deallocate on a non-empty segment list removes exactly the last
\* segment and leaves the others and their order unchanged.
C4_DeallocateLifo ==
    DeallocatePopped =>
        /\ Len(segments) = Len(last.segments) - 1
        /\ \A j \in 1 .. Len(segments) : segments[j] = last.segments[j]

\* a deallocate popped the tail of a list of differing segments
C4_Witness ==
    /\ DeallocatePopped
    /\ Len(last.segments) >= 2
    /\ last.segments[1] # last.segments[Len(last.segments)]

\* C5: a deallocate that pops a segment with tag t frees every page owned by
\* t, leaves every other page unchanged, adds 1 to totalDeallocations and
\* leaves totalAllocations alone.
C5_DeallocateFreesOwner ==
    DeallocatePopped =>
        LET t == last.segments[Len(last.segments)].processID
        IN  /\ \A i \in PageIdx :
                  IF last.pages[i].processID = t
                  THEN pages[i] = [used |-> FALSE, processID |-> ""]
                  ELSE pages[i] = last.pages[i]
            /\ totalDeallocations = last.totalDeallocations + 1
            /\ totalAllocations = last.totalAllocations

\* a deallocate freed more pages than its segment had, beside a foreign page
C5_Witness ==
    /\ DeallocatePopped
    /\ LET top == last.segments[Len(last.segments)]
       IN  /\ OwnedCount(last.pages, top.processID) * PageSizeKB > top.size
           /\ \E i \in PageIdx : last.pages[i].used /\ last.pages[i].processID # top.processID

\* C6: a deallocate on an empty segment list changes nothing.
C6_DeallocateEmptyNoOp ==
    DeallocateOnEmpty =>
        /\ pages = last.pages
        /\ segments = last.segments
        /\ totalAllocations = last.totalAllocations
        /\ totalDeallocations = last.totalDeallocations

\* a deallocate met an empty list after the list had been filled and drained
C6_Witness ==
    /\ DeallocateOnEmpty
    /\ totalAllocations > 0
    /\ totalDeallocations = totalAllocations

\* C7: every segment in the list has at least one page carrying its tag.
C7_SegmentHasPage ==
    \A j \in 1 .. Len(segments) :
        \E i \in PageIdx : pages[i].used /\ pages[i].processID = segments[j].processID

\* C8, as claimed: a deallocate right after an allocate restores the page
\* table to its contents before the allocate.
C8_RoundTripAnyState ==
    (last.op = "deallocate" /\ last.prior.op = "allocate") =>
        pages = last.prior.pages

\* C8, amended: a deallocate right after a successful allocate with tag t
\* leaves the page table as it was before the allocate, except that every
\* page that carried t then is free too.
C8_RoundTripUpToOwner ==
    (/\ last.op = "deallocate"
     /\ last.prior.op = "allocate"
     /\ HasFreeRun(last.prior.pages, last.prior.k)) =>
        \A i \in PageIdx :
            IF last.prior.pages[i].processID = last.prior.pid
            THEN pages[i] = [used |-> FALSE, processID |-> ""]
            ELSE pages[i] = last.prior.pages[i]

\* allocate then deallocate gave back a page table that had used pages
C8_Witness ==
    /\ last.op = "deallocate"
    /\ last.prior.op = "allocate"
    /\ HasFreeRun(last.prior.pages, last.prior.k)
    /\ UsedCount(last.prior.pages) > 0
    /\ pages = last.prior.pages

\* C9: a used page has a non-empty owner tag, a free page an empty one.
C9_UsedIffOwned ==
    \A i \in PageIdx :
        /\ pages[i].used => pages[i].processID # ""
        /\ ~pages[i].used => pages[i].processID = ""

\* pages have been allocated and freed, and both kinds are in the table
C9_Witness ==
    /\ totalDeallocations > 0
    /\ \E i \in PageIdx : pages[i].used
    /\ \E i \in PageIdx : ~pages[i].used

\* the number of adjacent pairs with differing tags among the first n segments
GapsAmong(segs, n) ==
    Cardinality({j \in 1 .. (n - 1) : segs[j].processID # segs[j + 1].processID})

\* C10: updateStats never interleaves with a command: what it has computed
\* so far is what the page table and the segment list of the current state
\* give, and it never indexes past the list.
C10_TickObservesOneState ==
    /\ tickPc # "panicked"
    /\ tickPc = "scanPages" =>
          tickLocals.usedPages =
              Cardinality({i \in PageIdx : i < tickLocals.idx /\ pages[i].used})
    /\ tickPc \in {"checkLen", "loopCond", "readPrev", "readCur", "divide"} =>
          tickLocals.usedPages = UsedCount(pages)
    /\ tickPc \in {"loopCond", "readPrev", "readCur", "divide"} =>
          /\ tickLocals.i <= Len(segments)
          /\ tickLocals.gaps = GapsAmong(segments, tickLocals.i)

\* x <= y on the float64 values of the statistics
F64Le(x, y) == ~F64Gt(x, y)

\* C11: stats.peakMemoryUsage starts at 0 and no step of allocate,
\* deallocate or updateStats ever lowers it.
C11_PeakNonDecreasing ==
    /\ peakMemoryUsage = F64Zero
    /\ [][F64Le(peakMemoryUsage, peakMemoryUsage')]_vars

\* the peak is kept above the current usage after the pages were freed and
\* updateStats has run again on the emptied table
C11_Witness ==
    /\ tickPc = "checkLen"
    /\ tickLocals.usedPages = 0
    /\ UsedCount(pages) = 0
    /\ totalDeallocations > 0
    /\ F64Gt(peakMemoryUsage, F64Zero)

\* C18: a step of the tick leaves the page table, the segment list and both
\* counters unchanged; they change only in a step of allocate or deallocate.
C18_TickLeavesEngine ==
    [][/\ (tick' # tick) => (engine' = engine)
       /\ (engine' # engine) => (tick' = tick /\ last'.op \in {"allocate", "deallocate"})]_vars

\* a whole updateStats has run over a table with used pages and segments
C18_Witness ==
    /\ tickPc = "sleep"
    /\ fragmentationRate # F64Zero
    /\ peakMemoryUsage # F64Zero
    /\ hostSample # noSample
    /\ Len(segments) >= 2
    /\ UsedCount(pages) >= 2

\* C14: the page table keeps its PageCount slots and the number of used
\* pages stays between 0 and PageCount.
C14_UsedWithinCapacity ==
    /\ DOMAIN pages = PageIdx
    /\ Cardinality({i \in DOMAIN pages : pages[i].used}) \in 0 .. PageCount

\* the table is full, after pages had been freed before
C14_Witness ==
    /\ UsedCount(pages) = PageCount
    /\ totalDeallocations > 0

\* C17: an allocate writes only slots inside 0..PageCount-1 that were free
\* before it; a page that was used keeps its owner tag.
C17_AllocateKeepsUsedPages ==
    last.op = "allocate" =>
        /\ DOMAIN pages = PageIdx
        /\ \A i \in PageIdx : last.pages[i].used => pages[i] = last.pages[i]

\* an allocate succeeded right behind a used page of another owner
C17_Witness ==
    /\ AllocateSucceeded
    /\ LET s == LowestFreeRun(last.pages, last.k)
       IN  /\ s > 0
           /\ last.pages[s - 1].used
           /\ last.pages[s - 1].processID # last.pid
           /\ pages[s].processID = last.pid

\* C19: totalAllocations - totalDeallocations is the length of the segment
\* list, both counters are non-negative and never decrease, and a step
\* changes at most one of them, by exactly 1.
C19_CountersMatchSegments ==
    /\ [](/\ totalAllocations - totalDeallocations = Len(segments)
          /\ totalAllocations >= 0
          /\ totalDeallocations >= 0)
    /\ [][/\ totalAllocations' \in {totalAllocations, totalAllocations + 1}
          /\ totalDeallocations' \in {totalDeallocations, totalDeallocations + 1}
          /\ (totalAllocations' = totalAllocations \/ totalDeallocations' = totalDeallocations)]_vars

\* both counters have moved, allocates have failed or not, segments remain
C19_Witness ==
    /\ totalAllocations = MaxAllocs
    /\ totalDeallocations >= 1
    /\ Len(segments) >= 1

\* C20: the owner tag of every used page is the tag of a segment in the
\* list; with an empty list every page is free.
C20_UsedPageHasSegment ==
    /\ \A i \in PageIdx :
          pages[i].used =>
              \E j \in 1 .. Len(segments) : segments[j].processID = pages[i].processID
    /\ Len(segments) = 0 => \A i \in PageIdx : ~pages[i].used

\* used pages remain beside a segment whose pages a same-tag deallocate freed
C20_Witness ==
    /\ \E i \in PageIdx : pages[i].used
    /\ \E j \in 1 .. Len(segments) :
          \A i \in PageIdx : pages[i].processID # segments[j].processID

\* the owner tags of a segment list, in order
Tags(segs) == [j \in 1 .. Len(segs) |-> segs[j].processID]

\* C12: the recomputed fragmentation rate is (adjacent pairs with differing
\* tags) / (number of segments) * 100 for a non-empty list and 0 for the
\* empty one; the tags [A, A, B, B] give 25.
C12_FragmentationFormula ==
    view.shown =>
        LET n == Len(segments)
            f == view.fragmentation
        IN  /\ n = 0 => f = F64Zero
            /\ n > 0 => /\ f.den > 0
                        /\ f.num * n = GapsAmong(segments, n) * 100 * f.den
            /\ Tags(segments) = <<Pid(0), Pid(0), Pid(1), Pid(1)>> => f = [num |-> 25, den |-> 1]

\* the rate of a list with tags [A, A, B, B] has been rendered
C12_Witness ==
    /\ view.shown
    /\ Tags(segments) = <<Pid(0), Pid(0), Pid(1), Pid(1)>>
    /\ view.fragmentation = [num |-> 25, den |-> 1]

\* C13: a tick whose host sample call fails keeps the four host fields as
\* they were; a tick whose call succeeds replaces all four by the new sample
\* (in MB, the percentage as it is).
C13_HostSampleMerge ==
    teaTick.taken =>
        IF teaTick.v.err
        THEN hostSample = teaTick.before
        ELSE /\ hostSample.memoryUsage = teaTick.v.UsedPercent
             /\ hostSample.totalMemory * MiB <= teaTick.v.Total
             /\ teaTick.v.Total < (hostSample.totalMemory + 1) * MiB
             /\ hostSample.usedMemory * MiB <= teaTick.v.Used
             /\ teaTick.v.Used < (hostSample.usedMemory + 1) * MiB
             /\ hostSample.freeMemory * MiB <= teaTick.v.Free
             /\ teaTick.v.Free < (hostSample.freeMemory + 1) * MiB

\* the sample call failed after an earlier sample had been stored
C13_Witness ==
    /\ teaTick.taken
    /\ teaTick.v.err
    /\ teaTick.before # noSample
    /\ hostSample = teaTick.before

\* C15: nothing fails fatally: the update goroutine never indexes the
\* segment list at or past its length, and the page table is never written
\* outside 0..PageCount-1.
C15_NoFatalFailure ==
    /\ tickPc # "panicked"
    /\ DOMAIN pages = PageIdx

\* the larger of two float64 values
F64Max(x, y) == IF F64Gt(y, x) THEN y ELSE x

\* C16: the Peak Usage value of the metrics panel after a rendering is the
\* larger of the value shown before and the current used-page ratio, so it
\* never drops.
C16_ShownPeakIsRunningMax ==
    [][(view' # view) =>
          view'.peakUsage = F64Max(view.peakUsage, Percent(UsedCount(pages'), PageCount))]_vars

\* C21: every fragmentation rate a recomputation stores lies in [0, 100),
\* also when allocate or deallocate run between the steps of updateStats.
C21_FragmentationBelowHundred ==
    /\ fragmentationRate.den > 0
    /\ fragmentationRate.num >= 0
    /\ fragmentationRate.num < 100 * fragmentationRate.den

\* the pages the listed segments stand for: the sum of size / pageSize
RECURSIVE SegmentPages(_)
SegmentPages(segs) ==
    IF segs = << >>
    THEN 0
    ELSE (Head(segs).size \div PageSizeKB) + SegmentPages(Tail(segs))

\* C22: the number of used pages is at most the sum over the segment list of
\* size / pageSize, and every segment size is pageSize, 2*pageSize or
\* 3*pageSize.
C22_UsedWithinSegmentPages ==
    /\ UsedCount(pages) <= SegmentPages(segments)
    /\ \A j \in 1 .. Len(segments) :
          segments[j].size \in {PageSizeKB, 2 * PageSizeKB, 3 * PageSizeKB}

\* a deallocate freed the pages of two segments with one tag: fewer pages
\* are used than the remaining segments stand for, and some are still used
C22_Witness ==
    /\ last.op = "deallocate"
    /\ Len(segments) >= 2
    /\ UsedCount(pages) > 0
    /\ UsedCount(pages) < SegmentPages(segments)

\* C23: once only deallocates are issued, the segment list shrinks by one
\* with each of them, so it is empty with every page free after exactly as
\* many deallocates as it had segments; this point is reached, and further
\* deallocates change nothing.
C23_DrainTerminates ==
    /\ [](drain.on =>
            /\ drain.count <= drain.segs => Len(segments) = drain.segs - drain.count
            /\ drain.count >= drain.segs => segments = << >> /\ UsedCount(pages) = 0)
    /\ [][(drain.on /\ segments = << >>) => engine' = engine]_vars
    /\ (drain.on ~> (segments = << >> /\ UsedCount(pages) = 0))

\* a drain of two or more segments has emptied the list and one more
\* deallocate has been issued
C23_Witness ==
    /\ drain.on
    /\ drain.segs >= 2
    /\ drain.count = drain.segs + 1
    /\ segments = << >>
    /\ UsedCount(pages) = 0

====
